---- MODULE Spec2Model ----
(***************************************************************************)
(* StreamScribe Enhanced (src/streamscribe_enhanced.py): one invocation of  *)
(* the chunked transcription run, from module import to process exit.       *)
(*                                                                         *)
(* The main thread is a sequential program; pc is its position.  The chunk  *)
(* generator create_audio_chunks and its consumer loop in run() alternate   *)
(* as Python generators do.  A termination signal may be delivered between  *)
(* any two steps once __init__ has installed _signal_handler.               *)
(* Offsets and durations are whole seconds.  An optional value (Python      *)
(* None or a value) is the empty sequence or a one-element sequence.        *)
(***************************************************************************)
EXTENDS Integers, Sequences, FiniteSets, TLC

\* Largest video duration the resolver reports.
MaxD == 4
\* Largest --chunk-duration given on the command line.
MaxL == 3
\* Largest --overlap given on the command line (no check that it is < L).
MaxO == 3
\* Cap on extraction attempts of one run (binds only when overlap > chunk).
MaxAttempts == 5
\* Largest offset, in milliseconds, given to the SRT time conversion.
MaxMs == 2500
\* Most 8192-byte pieces the audio download of the simplest variant delivers.
MaxPieces == 3

VARIABLES
    pc,                 \* position of the main thread
    chunk_duration,     \* self.chunk_duration
    overlap_duration,   \* self.overlap_duration
    whisper_model,      \* self.whisper_model is loaded
    video_info,         \* local video_info of run(): None or the resolved info
    is_running,         \* self.is_running
    is_interrupted,     \* self.is_interrupted
    total_duration,     \* self.total_duration
    processed_duration, \* self.processed_duration
    transcripts,        \* self.transcripts
    output_file,        \* self.output_file is set
    progress_bar,       \* self.progress_bar: None or [total, n, closed]
    current_position,   \* generator local current_position
    chunk_number,       \* generator local chunk_number
    extraction,         \* outcome of the generator's latest FFmpeg extraction
    chunk_data,         \* chunk handed to the consumer loop: None or the dict
    result_text,        \* result["text"] of the latest Whisper call, or the error mark
    transcript,         \* local transcript of run(): None or the segment dict
    text_file,          \* lines of the plain-text transcript file
    resume_file,        \* <output>.resume.json: None or its content
    json_file,          \* <base>.json: None or its content
    srt_file,           \* <base>.srt: None or its records
    exit_status,        \* process exit status, None while running
    outcome,            \* which way the process ended
    sig_pc,             \* where the main thread was when the signal arrived
    attempted,          \* start offsets FFmpeg was asked for, in order
    yielded             \* chunks the generator yielded, in order

\* _seconds_to_srt_time taken alone: its argument and its result.
VARIABLES
    srt_ms,             \* the offset, in whole milliseconds
    srt_time            \* None, or the <<HH, MM, SS, mmm>> it returned

main_vars == <<pc, chunk_duration, overlap_duration, whisper_model, video_info,
               is_running, is_interrupted, total_duration, processed_duration,
               transcripts, output_file, progress_bar, current_position,
               chunk_number, extraction, chunk_data, result_text, transcript,
               text_file, resume_file, json_file, srt_file, exit_status, outcome,
               sig_pc, attempted, yielded>>

srt_vars == <<srt_ms, srt_time>>

\* StreamScribePOC (src/streamscribe_poc.py): the main thread in run() and
\* the daemon thread in process_audio_queue.
VARIABLES
    poc_pc,             \* position of the main thread
    poc_is_running,     \* self.is_running
    poc_outcome,        \* which way run() ended
    audio_queue,        \* self.audio_queue: the items waiting in it
    unfinished_tasks,   \* self.audio_queue.unfinished_tasks, which join() awaits
    pieces_left,        \* pieces response.iter_content has yet to deliver
    downloaded,         \* pieces written to the BytesIO buffer
    consumer_pc,        \* position of the transcription thread
    audio_data,         \* consumer local audio_data: None or the item taken
    threads_started,    \* transcription threads started
    put_log,            \* items put on the queue, in order
    transcribed         \* items handed to transcribe_audio_chunk, in order

poc_vars == <<poc_pc, poc_is_running, poc_outcome, audio_queue,
              unfinished_tasks, pieces_left, downloaded, consumer_pc,
              audio_data, threads_started, put_log, transcribed>>

\* What a run of the enhanced variant leaves alone.
other_vars == <<srt_vars, poc_vars>>

vars == <<main_vars, other_vars>>

None == <<>>
Some(x) == <<x>>
Min(a, b) == IF a <= b THEN a ELSE b
Abs(a) == IF a < 0 THEN 0 - a ELSE a

\* Python int(a / b) for b # 0: the quotient truncated towards zero.
TruncDiv(a, b) ==
    LET q == Abs(a) \div Abs(b)
    IN  IF (a < 0) = (b < 0) THEN q ELSE 0 - q

(***************************************************************************)
(* Recognized text: strings over a blank and a letter.                     *)
(***************************************************************************)
RawTexts == { <<>>, <<" ">>, <<"a">>, <<" ", "a", " ">> }
WhisperError == <<"!">>

RECURSIVE LStrip(_)
LStrip(s) == IF s # <<>> /\ Head(s) = " " THEN LStrip(Tail(s)) ELSE s

RECURSIVE RStrip(_)
RStrip(s) ==
    IF s # <<>> /\ s[Len(s)] = " " THEN RStrip(SubSeq(s, 1, Len(s) - 1)) ELSE s

\* str.strip()
Strip(s) == LStrip(RStrip(s))

(***************************************************************************)
(* create_audio_chunks: the chunk arithmetic.                              *)
(***************************************************************************)
StepSizeNoOverlap == chunk_duration

\* step_size = chunk_size - overlap_size
StepSize == chunk_duration - overlap_duration

ActualDurationUnclamped(position) == chunk_duration

\* actual_duration = min(chunk_size, self.total_duration - current_position)
ActualDuration(position) == Min(chunk_duration, total_duration - position)

\* while current_position < self.total_duration and self.is_running,
\* then: if self.is_interrupted: break
LoopContinues ==
    /\ current_position < total_duration
    /\ is_running
    /\ ~is_interrupted

\* The dict the generator yields.
Chunk(position, number) ==
    [start_time |-> position,
     duration |-> ActualDuration(position),
     chunk_number |-> number]

RetryPosition == current_position

\* current_position += step_size on the two failure paths
SkipPosition == current_position + StepSize

(***************************************************************************)
(* transcribe_audio_chunk                                                  *)
(***************************************************************************)
Segment(text, chunk) ==
    [text |-> text,
     start_time |-> chunk.start_time,
     end_time |-> chunk.start_time + chunk.duration,
     duration |-> chunk.duration,
     chunk_number |-> chunk.chunk_number]

TranscribeResultUnstripped(raw, chunk) ==
    IF raw = WhisperError \/ raw = <<>> THEN None ELSE Some(Segment(raw, chunk))

\* The value transcribe_audio_chunk returns for the model output raw.
TranscribeResult(raw, chunk) ==
    IF raw = WhisperError THEN None
    ELSE IF Strip(raw) = <<>> THEN None
    ELSE Some(Segment(Strip(raw), chunk))

(***************************************************************************)
(* Output formats                                                          *)
(***************************************************************************)
\* format_time: str(timedelta(seconds=int(seconds))) as <<hours, minutes, seconds>>
FormatTime(seconds) ==
    <<seconds \div 3600, (seconds % 3600) \div 60, seconds % 60>>

\* _seconds_to_srt_time for whole seconds: <<HH, MM, SS, mmm>>
SecondsToSrtTime(seconds) ==
    <<seconds \div 3600, (seconds % 3600) \div 60, seconds % 60, 0>>

\* The line save_transcript appends to the text file.
TextLine(t) == <<FormatTime(t.start_time), FormatTime(t.end_time), t.text>>

SavePartialResultsNoProgress ==
    IF transcripts = <<>> THEN resume_file
    ELSE Some([transcripts |-> transcripts,
               processed_duration |-> 0,
               total_duration |-> total_duration])

\* _save_partial_results: the resume file after the call.
SavePartialResults ==
    IF transcripts = <<>> THEN resume_file
    ELSE Some([transcripts |-> transcripts,
               processed_duration |-> processed_duration,
               total_duration |-> total_duration])

\* save_final_results: the JSON document.
JsonData ==
    [transcripts |-> transcripts,
     duration |-> video_info[1].duration,
     chunk_duration |-> chunk_duration,
     overlap_duration |-> overlap_duration,
     total_chunks |-> Len(transcripts)]

SrtRecordsFromZero ==
    [i \in 1..Len(transcripts) |->
        [index |-> i - 1,
         start |-> SecondsToSrtTime(transcripts[i].start_time),
         end |-> SecondsToSrtTime(transcripts[i].end_time),
         text |-> transcripts[i].text]]

\* save_final_results: the SRT records, numbered from 1.
SrtRecords ==
    [i \in 1..Len(transcripts) |->
        [index |-> i,
         start |-> SecondsToSrtTime(transcripts[i].start_time),
         end |-> SecondsToSrtTime(transcripts[i].end_time),
         text |-> transcripts[i].text]]

(***************************************************************************)
(* Initial state: the interpreter is about to import the module; the       *)
(* fields hold what __init__ assigns.                                      *)
(***************************************************************************)
RunInit ==
    /\ pc = "import"
    /\ chunk_duration \in 1..MaxL
    /\ overlap_duration \in 0..MaxO
    /\ whisper_model = FALSE
    /\ video_info = None
    /\ is_running = FALSE
    /\ is_interrupted = FALSE
    /\ total_duration = 0
    /\ processed_duration = 0
    /\ transcripts = <<>>
    /\ output_file = FALSE
    /\ progress_bar = None
    /\ current_position = 0
    /\ chunk_number = 0
    /\ extraction = "none"
    /\ chunk_data = None
    /\ result_text = <<>>
    /\ transcript = None
    /\ text_file = <<>>
    /\ resume_file = None
    /\ json_file = None
    /\ srt_file = None
    /\ exit_status = None
    /\ outcome = "running"
    /\ sig_pc = "none"
    /\ attempted = <<>>
    /\ yielded = <<>>

\* StreamScribePOC.__init__
PocInit ==
    /\ poc_pc = "load_model"
    /\ poc_is_running = FALSE
    /\ poc_outcome = "running"
    /\ audio_queue = <<>>
    /\ unfinished_tasks = 0
    /\ pieces_left = 0
    /\ downloaded = 0
    /\ consumer_pc = "not_started"
    /\ audio_data = None
    /\ threads_started = 0
    /\ put_log = <<>>
    /\ transcribed = <<>>

Init ==
    /\ RunInit
    /\ srt_ms = 0
    /\ srt_time = None
    /\ PocInit

\* The close of the progress bar, when there is one.
ClosedBar == IF progress_bar = None THEN None
             ELSE Some([progress_bar[1] EXCEPT !.closed = TRUE])

\* run()'s finally block followed by the return to main and the exit.
ReturnFromRun(how) ==
    /\ is_running' = FALSE
    /\ progress_bar' = ClosedBar
    /\ pc' = "exited"
    /\ exit_status' = Some(0)
    /\ outcome' = how

(***************************************************************************)
(* Module import guard, lines 25-36.                                       *)
(***************************************************************************)
ImportOk ==
    /\ pc = "import"
    /\ pc' = "load_model"
    /\ UNCHANGED <<chunk_duration, overlap_duration, whisper_model, video_info,
                   is_running, is_interrupted, total_duration,
                   processed_duration, transcripts, output_file, progress_bar,
                   current_position, chunk_number, extraction, chunk_data,
                   result_text, transcript, text_file, resume_file, json_file,
                   srt_file, exit_status, outcome, sig_pc, attempted, yielded>>
    /\ UNCHANGED other_vars

\* except ImportError: ... sys.exit(1)
ImportFail ==
    /\ pc = "import"
    /\ pc' = "exited"
    /\ exit_status' = Some(1)
    /\ outcome' = "missing_dependency"
    /\ UNCHANGED <<chunk_duration, overlap_duration, whisper_model, video_info,
                   is_running, is_interrupted, total_duration,
                   processed_duration, transcripts, output_file, progress_bar,
                   current_position, chunk_number, extraction, chunk_data,
                   result_text, transcript, text_file, resume_file, json_file,
                   srt_file, sig_pc, attempted, yielded>>
    /\ UNCHANGED other_vars

(***************************************************************************)
(* run(): setup, lines 331-365.                                            *)
(***************************************************************************)
LoadModelOk ==
    /\ pc = "load_model"
    /\ whisper_model' = TRUE
    /\ pc' = "extract_info"
    /\ UNCHANGED <<chunk_duration, overlap_duration, video_info, is_running,
                   is_interrupted, total_duration, processed_duration,
                   transcripts, output_file, progress_bar, current_position,
                   chunk_number, extraction, chunk_data, result_text,
                   transcript, text_file, resume_file, json_file, srt_file,
                   exit_status, outcome, sig_pc, attempted, yielded>>
    /\ UNCHANGED other_vars

\* load_whisper_model re-raises; run() catches it as Exception and returns.
LoadModelFail ==
    /\ pc = "load_model"
    /\ ReturnFromRun("model_load_failed")
    /\ UNCHANGED <<chunk_duration, overlap_duration, whisper_model, video_info,
                   is_interrupted, total_duration, processed_duration,
                   transcripts, output_file, current_position, chunk_number,
                   extraction, chunk_data, result_text, transcript, text_file,
                   resume_file, json_file, srt_file, sig_pc, attempted, yielded>>
    /\ UNCHANGED other_vars

\* extract_youtube_info re-raises; run() catches it as Exception and returns.
ExtractInfoFail ==
    /\ pc = "extract_info"
    /\ ReturnFromRun("video_unreachable")
    /\ UNCHANGED <<chunk_duration, overlap_duration, whisper_model, video_info,
                   is_interrupted, total_duration, processed_duration,
                   transcripts, output_file, current_position, chunk_number,
                   extraction, chunk_data, result_text, transcript, text_file,
                   resume_file, json_file, srt_file, sig_pc, attempted, yielded>>
    /\ UNCHANGED other_vars

HasAudioUnchecked(info) == TRUE

\* if not video_info['audio_url'] (negated)
HasAudio(info) == info.audio_url

\* extract_youtube_info returns; run() checks the audio stream.
ExtractInfoOk ==
    /\ pc = "extract_info"
    /\ \E d \in 0..MaxD, audio \in BOOLEAN :
        LET info == [duration |-> d, audio_url |-> audio]
        IN  /\ total_duration' = d
            /\ video_info' = Some(info)
            /\ IF HasAudio(info)
               THEN /\ pc' = "setup_output"
                    /\ UNCHANGED <<is_running, progress_bar, exit_status,
                                   outcome>>
               ELSE ReturnFromRun("no_audio")
    /\ UNCHANGED <<chunk_duration, overlap_duration, whisper_model,
                   is_interrupted, processed_duration, transcripts,
                   output_file, current_position, chunk_number, extraction,
                   chunk_data, result_text, transcript, text_file, resume_file,
                   json_file, srt_file, sig_pc, attempted, yielded>>
    /\ UNCHANGED other_vars

\* Lines 350-365: output file name, progress bar, is_running = True.  The
\* progress-bar total divides by chunk_duration - overlap_duration.
SetupOutput ==
    /\ pc = "setup_output"
    /\ output_file' = TRUE
    /\ IF StepSize = 0
       THEN \* ZeroDivisionError, caught by except Exception
            /\ ReturnFromRun("setup_error")
            /\ UNCHANGED <<current_position, chunk_number>>
       ELSE /\ progress_bar' =
                   Some([total |-> TruncDiv(total_duration, StepSize) + 1,
                         n |-> 0, closed |-> FALSE])
            /\ is_running' = TRUE
            \* the for statement creates the generator; its body starts at
            \* the first next()
            /\ current_position' = 0
            /\ chunk_number' = 0
            /\ pc' = "gen_loop"
            /\ UNCHANGED <<exit_status, outcome>>
    /\ UNCHANGED <<chunk_duration, overlap_duration, whisper_model, video_info,
                   is_interrupted, total_duration, processed_duration,
                   transcripts, extraction, chunk_data, result_text, transcript,
                   text_file, resume_file, json_file, srt_file, sig_pc,
                   attempted, yielded>>
    /\ UNCHANGED other_vars

(***************************************************************************)
(* create_audio_chunks, lines 135-187: one pass of the while loop up to    *)
(* its continue, its yield or the loop's end.                              *)
(***************************************************************************)
\* The loop condition fails or the interruption flag breaks the loop.
GenLoopExit ==
    /\ pc = "gen_loop"
    /\ ~LoopContinues
    /\ pc' = "after_loop"
    /\ UNCHANGED <<chunk_duration, overlap_duration, whisper_model, video_info,
                   is_running, is_interrupted, total_duration,
                   processed_duration, transcripts, output_file, progress_bar,
                   current_position, chunk_number, extraction, chunk_data,
                   result_text, transcript, text_file, resume_file, json_file,
                   srt_file, exit_status, outcome, sig_pc, attempted, yielded>>
    /\ UNCHANGED other_vars

\* FFmpeg exits non-zero (lines 167-170) or Popen/communicate raises
\* (lines 184-187): the position advances, nothing else does.
ExtractFail ==
    /\ pc = "gen_loop"
    /\ LoopContinues
    /\ Len(attempted) < MaxAttempts
    /\ \E how \in {"nonzero_exit", "exception"} : extraction' = how
    /\ attempted' = Append(attempted, current_position)
    /\ current_position' = SkipPosition
    /\ UNCHANGED <<pc, chunk_duration, overlap_duration, whisper_model,
                   video_info, is_running, is_interrupted, total_duration,
                   processed_duration, transcripts, output_file, progress_bar,
                   chunk_number, chunk_data, result_text, transcript, text_file,
                   resume_file, json_file, srt_file, exit_status, outcome,
                   sig_pc, yielded>>
    /\ UNCHANGED other_vars

\* FFmpeg exits zero with no bytes: no yield, lines 180-182 run.
ExtractEmpty ==
    /\ pc = "gen_loop"
    /\ LoopContinues
    /\ Len(attempted) < MaxAttempts
    /\ extraction' = "empty_audio"
    /\ attempted' = Append(attempted, current_position)
    /\ chunk_number' = chunk_number + 1
    /\ current_position' = current_position + StepSize
    /\ processed_duration' = current_position + StepSize
    /\ UNCHANGED <<pc, chunk_duration, overlap_duration, whisper_model,
                   video_info, is_running, is_interrupted, total_duration,
                   transcripts, output_file, progress_bar, chunk_data,
                   result_text, transcript, text_file, resume_file, json_file,
                   srt_file, exit_status, outcome, sig_pc, yielded>>
    /\ UNCHANGED other_vars

\* FFmpeg exits zero with audio bytes: the chunk is yielded to run().
ExtractYield ==
    /\ pc = "gen_loop"
    /\ LoopContinues
    /\ Len(attempted) < MaxAttempts
    /\ extraction' = "success"
    /\ attempted' = Append(attempted, current_position)
    /\ chunk_data' = Some(Chunk(current_position, chunk_number))
    /\ yielded' = Append(yielded, Chunk(current_position, chunk_number))
    /\ pc' = "yielded"
    /\ UNCHANGED <<chunk_duration, overlap_duration, whisper_model, video_info,
                   is_running, is_interrupted, total_duration,
                   processed_duration, transcripts, output_file, progress_bar,
                   current_position, chunk_number, result_text, transcript,
                   text_file, resume_file, json_file, srt_file, exit_status,
                   outcome, sig_pc>>
    /\ UNCHANGED other_vars

\* The generator resumes after its yield: lines 180-182.
GenResume ==
    /\ pc = "gen_resume"
    /\ chunk_number' = chunk_number + 1
    /\ current_position' = current_position + StepSize
    /\ processed_duration' = current_position + StepSize
    /\ pc' = "gen_loop"
    /\ UNCHANGED <<chunk_duration, overlap_duration, whisper_model, video_info,
                   is_running, is_interrupted, total_duration, transcripts,
                   output_file, progress_bar, extraction, chunk_data,
                   result_text, transcript, text_file, resume_file, json_file,
                   srt_file, exit_status, outcome, sig_pc, attempted, yielded>>
    /\ UNCHANGED other_vars

(***************************************************************************)
(* run(): the body of the for loop, lines 369-387.                         *)
(***************************************************************************)
\* Line 369 and the call of transcribe_audio_chunk (lines 189-232).  Whisper
\* returns some text or raises.
RunTranscribe ==
    /\ pc = "yielded"
    /\ IF ~is_running \/ is_interrupted
       THEN /\ pc' = "after_loop"
            /\ UNCHANGED <<result_text, transcript>>
       ELSE \E raw \in RawTexts \cup {WhisperError} :
                /\ result_text' = raw
                /\ transcript' = TranscribeResult(raw, chunk_data[1])
                /\ pc' = "got_transcript"
    /\ UNCHANGED <<chunk_duration, overlap_duration, whisper_model, video_info,
                   is_running, is_interrupted, total_duration,
                   processed_duration, transcripts, output_file, progress_bar,
                   current_position, chunk_number, extraction, chunk_data,
                   text_file, resume_file, json_file, srt_file, exit_status,
                   outcome, sig_pc, attempted, yielded>>
    /\ UNCHANGED other_vars

\* progress_bar.update(1)
UpdatedBar == Some([progress_bar[1] EXCEPT !.n = @ + 1])

\* if transcript: is false; the loop body ends with progress_bar.update(1).
DropEmpty ==
    /\ pc = "got_transcript"
    /\ transcript = None
    /\ progress_bar' = UpdatedBar
    /\ result_text' = <<>>
    /\ pc' = "gen_resume"
    /\ UNCHANGED <<chunk_duration, overlap_duration, whisper_model, video_info,
                   is_running, is_interrupted, total_duration,
                   processed_duration, transcripts, output_file,
                   current_position, chunk_number, extraction, chunk_data,
                   transcript, text_file, resume_file, json_file, srt_file,
                   exit_status, outcome, sig_pc, attempted, yielded>>
    /\ UNCHANGED other_vars

\* save_transcript up to the end of its with block: the line is in the file.
SaveTranscriptWrite ==
    /\ pc = "got_transcript"
    /\ transcript # None
    /\ result_text' = <<>>
    /\ IF ~output_file
       THEN \* if not self.output_file: return
            /\ progress_bar' = UpdatedBar
            /\ pc' = "gen_resume"
            /\ UNCHANGED text_file
       ELSE /\ text_file' = Append(text_file, TextLine(transcript[1]))
            /\ pc' = "save_append"
            /\ UNCHANGED progress_bar
    /\ UNCHANGED <<chunk_duration, overlap_duration, whisper_model, video_info,
                   is_running, is_interrupted, total_duration,
                   processed_duration, transcripts, output_file,
                   current_position, chunk_number, extraction, chunk_data,
                   transcript, resume_file, json_file, srt_file, exit_status,
                   outcome, sig_pc, attempted, yielded>>
    /\ UNCHANGED other_vars

\* self.transcripts.append(transcript), then progress_bar.update(1).
SaveTranscriptAppend ==
    /\ pc = "save_append"
    /\ transcripts' = Append(transcripts, transcript[1])
    /\ progress_bar' = UpdatedBar
    /\ pc' = "gen_resume"
    /\ UNCHANGED <<chunk_duration, overlap_duration, whisper_model, video_info,
                   is_running, is_interrupted, total_duration,
                   processed_duration, output_file, current_position,
                   chunk_number, extraction, chunk_data, result_text,
                   transcript, text_file, resume_file, json_file, srt_file,
                   exit_status, outcome, sig_pc, attempted, yielded>>
    /\ UNCHANGED other_vars

(***************************************************************************)
(* run(): after the loop, lines 389-405, and the return through main.      *)
(***************************************************************************)
Finish ==
    /\ pc = "after_loop"
    /\ IF ~is_interrupted /\ transcripts # <<>>
       THEN \* save_final_results
            /\ json_file' = Some(JsonData)
            /\ srt_file' = Some(SrtRecords)
       ELSE UNCHANGED <<json_file, srt_file>>
    /\ ReturnFromRun("completed")
    /\ UNCHANGED <<chunk_duration, overlap_duration, whisper_model, video_info,
                   is_interrupted, total_duration, processed_duration,
                   transcripts, output_file, current_position, chunk_number,
                   extraction, chunk_data, result_text, transcript, text_file,
                   resume_file, sig_pc, attempted, yielded>>
    /\ UNCHANGED other_vars

(***************************************************************************)
(* _signal_handler, lines 66-75, run between two steps of the main thread. *)
(***************************************************************************)
HandlerInstalled == pc \notin {"import", "exited"}

SignalHandlerNoExit ==
    /\ HandlerInstalled
    /\ is_interrupted' = TRUE
    /\ is_running' = FALSE
    /\ progress_bar' = ClosedBar
    /\ resume_file' = SavePartialResults
    /\ sig_pc' = pc
    /\ UNCHANGED <<pc, chunk_duration, overlap_duration, whisper_model,
                   video_info, total_duration, processed_duration, transcripts,
                   output_file, current_position, chunk_number, extraction,
                   chunk_data, result_text, transcript, text_file, json_file,
                   srt_file, exit_status, outcome, attempted, yielded>>
    /\ UNCHANGED other_vars

\* The handler sets the flags, closes the bar, saves the partial results and
\* calls sys.exit(0); SystemExit passes run()'s except clauses, its finally
\* block runs and the process exits.
SignalHandler ==
    /\ HandlerInstalled
    /\ is_interrupted' = TRUE
    /\ is_running' = FALSE
    /\ progress_bar' = ClosedBar
    /\ resume_file' = SavePartialResults
    /\ sig_pc' = pc
    /\ pc' = "exited"
    /\ exit_status' = Some(0)
    /\ outcome' = "interrupted"
    /\ UNCHANGED <<chunk_duration, overlap_duration, whisper_model, video_info,
                   total_duration, processed_duration, transcripts, output_file,
                   current_position, chunk_number, extraction, chunk_data,
                   result_text, transcript, text_file, json_file, srt_file,
                   attempted, yielded>>
    /\ UNCHANGED other_vars

Next ==
    \/ ImportOk
    \/ ImportFail
    \/ LoadModelOk
    \/ LoadModelFail
    \/ ExtractInfoFail
    \/ ExtractInfoOk
    \/ SetupOutput
    \/ GenLoopExit
    \/ ExtractFail
    \/ ExtractEmpty
    \/ ExtractYield
    \/ GenResume
    \/ RunTranscribe
    \/ DropEmpty
    \/ SaveTranscriptWrite
    \/ SaveTranscriptAppend
    \/ Finish
    \/ SignalHandler

Spec == Init /\ [][Next]_vars

(***************************************************************************)
(* Properties                                                              *)
(***************************************************************************)
L == chunk_duration
O == overlap_duration
D == total_duration

\* C1: every yielded chunk with chunk_number i starts at i*(L-O), lasts
\* min(L, D - i*(L-O)) and starts before D, whatever the earlier extraction
\* outcomes were.
C1_ChunkBoundaries ==
    \A k \in DOMAIN yielded :
        LET c == yielded[k]
            s == c.chunk_number * (L - O)
        IN  /\ c.start_time = s
            /\ c.duration = Min(L, D - s)
            /\ c.start_time < D

\* C2 as stated: the start offsets of consecutive yielded chunks differ by
\* exactly L - O.
C2_ConsecutiveStartsDifferByStep ==
    \A k \in 1..(Len(yielded) - 1) :
        yielded[k + 1].start_time - yielded[k].start_time = L - O

\* C2 amended: consecutive attempted start offsets differ by exactly L - O,
\* and two consecutive yielded chunks are (L - O) times one plus the number
\* of skipped attempts between them apart; none of the attempts between
\* them was yielded.
C2_StartsDifferByStepPerAttempt ==
    /\ \A k \in 1..(Len(attempted) - 1) :
          attempted[k + 1] - attempted[k] = L - O
    /\ \A k \in 1..(Len(yielded) - 1) :
          \E i, j \in DOMAIN attempted :
              /\ i < j
              /\ attempted[i] = yielded[k].start_time
              /\ attempted[j] = yielded[k + 1].start_time
              /\ yielded[k + 1].start_time - yielded[k].start_time
                    = (j - i) * (L - O)
              /\ \A m \in (i + 1)..(j - 1) :
                    \A n \in DOMAIN yielded : yielded[n].start_time # attempted[m]

\* Two consecutive yielded chunks with one skipped attempt between them,
\* with a positive overlap.
C2_Witness ==
    /\ O > 0
    /\ \E k \in 1..(Len(yielded) - 1) :
          yielded[k + 1].start_time - yielded[k].start_time = 2 * (L - O)

\* C3: the end offset of every yielded chunk, and the end_time of every
\* recorded segment, is at most total_duration.
C3_EndWithinTotal ==
    /\ \A k \in DOMAIN yielded :
          yielded[k].start_time + yielded[k].duration <= D
    /\ \A k \in DOMAIN transcripts : transcripts[k].end_time <= D

\* A recorded segment of a final chunk cut short at the end of the video.
C3_Witness ==
    \E k \in DOMAIN transcripts :
        /\ transcripts[k].end_time = D
        /\ transcripts[k].duration < L
        /\ transcripts[k].start_time > 0

\* Chunks whose handling is over when the signal arrives: every attempt,
\* less the one still with the consumer loop.
ChunksProcessed ==
    Len(attempted)
        - (IF sig_pc \in {"yielded", "got_transcript", "save_append"}
           THEN 1 ELSE 0)

\* C4: an interruption after N >= 1 recorded segments leaves a resume file
\* with exactly those segments and, as processed_duration, the offset the
\* processed chunks reach: L - O for each of them.
C4_ResumeHoldsSegmentsAndOffset ==
    (outcome = "interrupted" /\ Len(transcripts) >= 1) =>
        resume_file = Some([transcripts |-> transcripts,
                            processed_duration |-> ChunksProcessed * (L - O),
                            total_duration |-> D])

C6_NothingAfterInterrupt ==
    [][is_interrupted =>
          /\ attempted' = attempted
          /\ yielded' = yielded
          /\ transcript' = transcript
          /\ result_text' = result_text
          /\ transcripts' = transcripts
          /\ text_file' = text_file
          /\ json_file' = json_file
          /\ srt_file' = srt_file]_vars

\* The signal arrived with a transcribed chunk not yet saved.
C6_Witness ==
    /\ is_interrupted
    /\ sig_pc = "got_transcript"
    /\ transcript # None
    /\ Len(transcripts) >= 1
    /\ json_file = None

\* C7: for recognized text that is empty or blank, transcribe_audio_chunk
\* returns None, and the loop body then leaves transcripts and the text file
\* as they are and goes on to the next chunk.
C7_EmptyTextDropped ==
    [][/\ (pc = "yielded" /\ pc' = "got_transcript"
                /\ result_text' # WhisperError /\ Strip(result_text') = <<>>)
            => transcript' = None
       /\ (pc = "got_transcript"
                /\ result_text # WhisperError /\ Strip(result_text) = <<>>)
            => /\ transcripts' = transcripts
               /\ text_file' = text_file
               /\ pc' \in {"gen_resume", "exited"}]_vars

\* A blank recognized text came back after a segment was recorded.
C7_Witness ==
    /\ pc = "got_transcript"
    /\ result_text = <<" ">>
    /\ transcript = None
    /\ Len(transcripts) >= 1

SetupFailures ==
    {"missing_dependency", "model_load_failed", "video_unreachable",
     "no_audio", "setup_error"}

C9_SkipAndContinue ==
    /\ [](/\ \A k \in DOMAIN attempted : attempted[k] = (k - 1) * (L - O)
          /\ \A i, j \in DOMAIN attempted : i # j => attempted[i] # attempted[j]
          /\ \A k \in DOMAIN transcripts :
                \E n \in DOMAIN yielded :
                    transcripts[k] = Segment(transcripts[k].text, yielded[n])
          /\ Len(transcripts) <= Len(yielded)
          /\ pc = "after_loop" => current_position >= D
          /\ (pc = "got_transcript" /\ result_text = WhisperError)
                => transcript = None)
    /\ [][/\ (Len(attempted') = Len(attempted) + 1
                  /\ extraction' \in {"nonzero_exit", "exception"})
              => /\ transcripts' = transcripts
                 /\ text_file' = text_file
                 /\ yielded' = yielded
                 /\ current_position' = current_position + (L - O)
                 /\ pc' = "gen_loop"
                 /\ is_running'
          /\ (pc = "got_transcript" /\ result_text = WhisperError)
              => /\ transcripts' = transcripts
                 /\ text_file' = text_file
                 /\ pc' \in {"gen_resume", "exited"}]_vars

\* An extraction has just failed after a segment was recorded, and the loop
\* is about to try the next offset.
C9_Witness ==
    /\ pc = "gen_loop"
    /\ extraction \in {"nonzero_exit", "exception"}
    /\ Len(transcripts) >= 1
    /\ current_position < D
    /\ current_position = Len(attempted) * (L - O)

NothingDone ==
    /\ attempted = <<>>
    /\ yielded = <<>>
    /\ chunk_data = None
    /\ transcript = None
    /\ transcripts = <<>>
    /\ text_file = <<>>
    /\ json_file = None
    /\ srt_file = None
    /\ resume_file = None

\* C10: a run whose model did not load, whose video did not resolve or whose
\* video has no audio stream ends with no chunk extracted or transcribed, no
\* segment, no output file of any kind, and is_running false.
C10_SetupErrorsAbort ==
    /\ outcome \in {"model_load_failed", "video_unreachable", "no_audio"}
          => (pc = "exited" /\ NothingDone /\ ~is_running)
    /\ (pc = "exited" /\ outcome # "missing_dependency"
            /\ (\/ ~whisper_model
                \/ video_info = None
                \/ ~video_info[1].audio_url))
          => (NothingDone /\ ~is_running)

\* A video of positive length without an audio stream ended the run.
C10_Witness ==
    /\ pc = "exited"
    /\ outcome = "no_audio"
    /\ total_duration > 0
    /\ ~is_interrupted

Increasing(ts) ==
    \A i, j \in DOMAIN ts :
        i < j => /\ ts[i].chunk_number < ts[j].chunk_number
                 /\ ts[i].start_time < ts[j].start_time

\* C11: in every step transcripts is unchanged or extended by one segment
\* at its end, and the recorded segments have strictly increasing
\* chunk_number and strictly increasing start_time.
C11_AppendOnlyIncreasing ==
    [][/\ \/ transcripts' = transcripts
          \/ /\ Len(transcripts') = Len(transcripts) + 1
             /\ SubSeq(transcripts', 1, Len(transcripts)) = transcripts
       /\ Increasing(transcripts')]_vars

\* The seconds an SRT time <<HH, MM, SS, mmm>> of whole seconds stands for.
SrtTimeToSeconds(t) == t[1] * 3600 + t[2] * 60 + t[3]

\* C12: a run that completes with n >= 1 segments has written the JSON
\* document with exactly the recorded segments in order and n SRT records
\* numbered 1..n, record k with the start, end and text of segment k; a
\* resume snapshot exists only after an interruption.
C12_FinalResults ==
    /\ (outcome = "completed" /\ Len(transcripts) >= 1) =>
          /\ json_file # None
          /\ json_file[1].transcripts = transcripts
          /\ srt_file # None
          /\ Len(srt_file[1]) = Len(transcripts)
          /\ \A k \in DOMAIN transcripts :
                LET r == srt_file[1][k]
                IN  /\ r.index = k
                    /\ r.start[2] < 60 /\ r.start[3] < 60 /\ r.start[4] = 0
                    /\ r.end[2] < 60 /\ r.end[3] < 60 /\ r.end[4] = 0
                    /\ SrtTimeToSeconds(r.start) = transcripts[k].start_time
                    /\ SrtTimeToSeconds(r.end) = transcripts[k].end_time
                    /\ r.text = transcripts[k].text
          /\ resume_file = None
    /\ resume_file # None => (is_interrupted /\ outcome = "interrupted")

\* A completed run with two segments in its JSON and SRT files.
C12_Witness ==
    /\ outcome = "completed"
    /\ Len(transcripts) >= 2
    /\ srt_file # None
    /\ Len(srt_file[1]) = Len(transcripts)

\* ceil(a / b) for b # 0
CeilDiv(a, b) ==
    IF b > 0 THEN (a + b - 1) \div b ELSE 0 - (a \div (0 - b))

\* C15: the chunk loop makes at most ceil(D / (L - O)) iterations, for every
\* chunk duration and overlap the command line accepts.
C15_IterationBound ==
    L # O =>
        Len(attempted) <= (IF CeilDiv(D, L - O) < 0 THEN 0 ELSE CeilDiv(D, L - O))

\* C16, for an overlap below the chunk duration: processed_duration never
\* decreases and stays within 0..total_duration.
C16_ProgressWithinTotal ==
    [][O < L =>
          /\ processed_duration' >= processed_duration
          /\ 0 <= processed_duration'
          /\ processed_duration' <= total_duration']_vars

\* C17: when the signal handler has run, every line of the text transcript
\* file is the line of a segment in transcripts, and of the resume snapshot.
C17_TextFileWithinTranscripts ==
    outcome = "interrupted" =>
        /\ Len(text_file) <= Len(transcripts)
        /\ \A k \in DOMAIN text_file : text_file[k] = TextLine(transcripts[k])
        /\ text_file # <<>> =>
              /\ resume_file # None
              /\ resume_file[1].transcripts = transcripts

(***************************************************************************)
(* _seconds_to_srt_time on an offset of whole milliseconds.                *)
(*                                                                         *)
(* The argument is the Python float nearest to ms / 1000, an IEEE-754      *)
(* double with a 53-bit significand q * 2^(e-52), 2^e <= ms/1000 < 2^(e+1).*)
(* // and % are exact on doubles, so the hour, minute and second fields    *)
(* are those of ms.  seconds % 1 is exact too; its product with 1000 is    *)
(* r + 1000 * err exactly, r = ms mod 1000 and err the rounding error of   *)
(* the argument, before it is rounded to a double and truncated by int().  *)
(* With rem = (ms * 2^(52-e)) mod 1000, the argument was rounded up when   *)
(* rem >= 500 and down by rem * 2^(e-52) / 1000 when 0 < rem < 500; a      *)
(* product below r is rounded back to r only within half a unit in the     *)
(* last place of the doubles just below r.                                 *)
(***************************************************************************)
RECURSIVE Pow2(_)
Pow2(k) == IF k = 0 THEN 1 ELSE 2 * Pow2(k - 1)

\* 2^k mod 1000
RECURSIVE Pow2Mod1000(_)
Pow2Mod1000(k) == IF k = 0 THEN 1 ELSE (2 * Pow2Mod1000(k - 1)) % 1000

\* floor(log2(r)) for r >= 1
RECURSIVE FloorLog2(_)
FloorLog2(r) == IF r < 2 THEN 0 ELSE 1 + FloorLog2(r \div 2)

RECURSIVE ExponentUp(_, _)
ExponentUp(ms, e) ==
    IF Pow2(e + 1) * 1000 <= ms THEN ExponentUp(ms, e + 1) ELSE e

RECURSIVE ExponentDown(_, _)
ExponentDown(ms, m) ==
    IF ms * Pow2(m) < 1000 THEN ExponentDown(ms, m + 1) ELSE m

\* The binary exponent e of the double nearest to ms / 1000, ms >= 1.
DoubleExponent(ms) ==
    IF ms >= 1000 THEN ExponentUp(ms, 0) ELSE 0 - ExponentDown(ms, 0)

\* int((seconds % 1) * 1000)
Millisecs(ms) ==
    LET r == ms % 1000
        e == DoubleExponent(ms)
        rem == (r * Pow2Mod1000(52 - e)) % 1000
        below == IF Pow2(FloorLog2(r)) = r THEN FloorLog2(r) - 1
                 ELSE FloorLog2(r)
        t == below - e - 1
    IN  IF r = 0 THEN 0
        ELSE IF rem = 0 \/ rem >= 500 THEN r
        ELSE IF t >= 0 /\ rem <= Pow2(t) THEN r
        ELSE r - 1

\* _seconds_to_srt_time(ms / 1000) as <<HH, MM, SS, mmm>>
SecondsToSrtTimeOfMs(ms) ==
    <<ms \div 3600000, (ms % 3600000) \div 60000, (ms % 60000) \div 1000,
      Millisecs(ms)>>

\* The offset 3725.4 s of the documented example, in milliseconds.
KnownOffsetMs == 3725 * 1000 + 400

SrtInputs == (0..MaxMs) \cup {KnownOffsetMs}

SrtInit ==
    /\ RunInit
    /\ chunk_duration = 1
    /\ overlap_duration = 0
    /\ srt_ms \in SrtInputs
    /\ srt_time = None
    /\ PocInit

\* One call of _seconds_to_srt_time.
SrtConvert ==
    /\ srt_time = None
    /\ srt_time' = Some(SecondsToSrtTimeOfMs(srt_ms))
    /\ UNCHANGED <<main_vars, srt_ms, poc_vars>>

SrtNext == SrtConvert

SrtSpec == SrtInit /\ [][SrtNext]_vars

\* C13: the offset 3725400 ms gives 01:02:05,400, and for every offset of
\* whole milliseconds the fields are floor(s/3600), floor((s mod 3600)/60),
\* floor(s mod 60) and the millisecond part, within their ranges, and
\* recombine to the offset.
C13_SrtTimeRoundTrip ==
    srt_time # None =>
        LET t == srt_time[1]
        IN  /\ srt_ms = KnownOffsetMs => t = <<1, 2, 5, 400>>
            /\ t[1] = srt_ms \div 3600000
            /\ t[2] = (srt_ms % 3600000) \div 60000
            /\ t[3] = (srt_ms % 60000) \div 1000
            /\ t[4] = srt_ms % 1000
            /\ t[2] < 60 /\ t[3] < 60 /\ t[4] < 1000
            /\ ((t[1] * 60 + t[2]) * 60 + t[3]) * 1000 + t[4] = srt_ms

(***************************************************************************)
(* StreamScribePOC (src/streamscribe_poc.py): run() on the main thread and  *)
(* process_audio_queue on one daemon thread, joined by audio_queue.         *)
(***************************************************************************)
\* Leaving run(): the finally clause clears is_running.
PocReturn(how) ==
    /\ poc_pc' = "returned"
    /\ poc_is_running' = FALSE
    /\ poc_outcome' = how

\* The value StreamScribePOC.transcribe_audio_chunk returns for the model
\* output raw: the stripped text, or None for no text or any exception.
PocTranscribeResult(raw) ==
    IF raw = WhisperError THEN None
    ELSE IF Strip(raw) = <<>> THEN None
    ELSE Some(Strip(raw))

\* The item simulate_audio_streaming puts: the whole buffer.
PocItem == [id |-> Len(put_log) + 1, pieces |-> downloaded]

\* load_whisper_model succeeds.
PocLoadModelOk ==
    /\ poc_pc = "load_model"
    /\ poc_pc' = "extract_info"
    /\ UNCHANGED <<poc_is_running, poc_outcome, audio_queue, unfinished_tasks,
                   pieces_left, downloaded, consumer_pc, audio_data,
                   threads_started, put_log, transcribed>>
    /\ UNCHANGED <<main_vars, srt_vars>>

\* load_whisper_model raises: except Exception, then finally.
PocLoadModelFail ==
    /\ poc_pc = "load_model"
    /\ PocReturn("failed")
    /\ UNCHANGED <<audio_queue, unfinished_tasks, pieces_left, downloaded,
                   consumer_pc, audio_data, threads_started, put_log,
                   transcribed>>
    /\ UNCHANGED <<main_vars, srt_vars>>

\* extract_youtube_info raises: except Exception, then finally.
PocExtractInfoFail ==
    /\ poc_pc = "extract_info"
    /\ PocReturn("failed")
    /\ UNCHANGED <<audio_queue, unfinished_tasks, pieces_left, downloaded,
                   consumer_pc, audio_data, threads_started, put_log,
                   transcribed>>
    /\ UNCHANGED <<main_vars, srt_vars>>

\* video_info['audio_url'] is empty: return before any thread is started.
PocNoAudio ==
    /\ poc_pc = "extract_info"
    /\ PocReturn("no_audio")
    /\ UNCHANGED <<audio_queue, unfinished_tasks, pieces_left, downloaded,
                   consumer_pc, audio_data, threads_started, put_log,
                   transcribed>>
    /\ UNCHANGED <<main_vars, srt_vars>>

\* An audio URL was found: is_running = True and the transcription thread
\* is started.
PocStartThread ==
    /\ poc_pc = "extract_info"
    /\ poc_is_running' = TRUE
    /\ threads_started' = threads_started + 1
    /\ consumer_pc' = "loop"
    /\ poc_pc' = "request"
    /\ UNCHANGED <<poc_outcome, audio_queue, unfinished_tasks, pieces_left,
                   downloaded, audio_data, put_log, transcribed>>
    /\ UNCHANGED <<main_vars, srt_vars>>

\* requests.get and raise_for_status succeed; the response holds some
\* number of pieces.
PocRequestOk ==
    /\ poc_pc = "request"
    /\ \E n \in 0..MaxPieces : pieces_left' = n
    /\ downloaded' = 0
    /\ poc_pc' = "download"
    /\ UNCHANGED <<poc_is_running, poc_outcome, audio_queue, unfinished_tasks,
                   consumer_pc, audio_data, threads_started, put_log,
                   transcribed>>
    /\ UNCHANGED <<main_vars, srt_vars>>

\* The request or the download raises: simulate_audio_streaming clears
\* is_running and returns to run() with nothing put.
PocStreamingFail ==
    /\ poc_pc \in {"request", "download"}
    /\ poc_pc = "download" => pieces_left > 0
    /\ poc_is_running' = FALSE
    /\ poc_pc' = "join"
    /\ UNCHANGED <<poc_outcome, audio_queue, unfinished_tasks, pieces_left,
                   downloaded, consumer_pc, audio_data, threads_started,
                   put_log, transcribed>>
    /\ UNCHANGED <<main_vars, srt_vars>>

\* One iteration of the download loop.
PocDownloadPiece ==
    /\ poc_pc = "download"
    /\ pieces_left > 0
    /\ poc_is_running
    /\ downloaded' = downloaded + 1
    /\ pieces_left' = pieces_left - 1
    /\ UNCHANGED <<poc_pc, poc_is_running, poc_outcome, audio_queue,
                   unfinished_tasks, consumer_pc, audio_data, threads_started,
                   put_log, transcribed>>
    /\ UNCHANGED <<main_vars, srt_vars>>

PocPutTwice ==
    /\ poc_pc = "download"
    /\ pieces_left = 0 \/ ~poc_is_running
    /\ audio_queue' = Append(Append(audio_queue, PocItem), PocItem)
    /\ unfinished_tasks' = unfinished_tasks + 2
    /\ put_log' = Append(put_log, PocItem)
    /\ poc_pc' = "join"
    /\ UNCHANGED <<poc_is_running, poc_outcome, pieces_left, downloaded,
                   consumer_pc, audio_data, threads_started, transcribed>>
    /\ UNCHANGED <<main_vars, srt_vars>>

\* The loop is over (exhausted, or left by break): audio_queue.put of the
\* whole buffer, and back to run().
PocPut ==
    /\ poc_pc = "download"
    /\ pieces_left = 0 \/ ~poc_is_running
    /\ audio_queue' = Append(audio_queue, PocItem)
    /\ unfinished_tasks' = unfinished_tasks + 1
    /\ put_log' = Append(put_log, PocItem)
    /\ poc_pc' = "join"
    /\ UNCHANGED <<poc_is_running, poc_outcome, pieces_left, downloaded,
                   consumer_pc, audio_data, threads_started, transcribed>>
    /\ UNCHANGED <<main_vars, srt_vars>>

\* audio_queue.join() returns once every item put has been marked done.
PocJoin ==
    /\ poc_pc = "join"
    /\ unfinished_tasks = 0
    /\ PocReturn("completed")
    /\ UNCHANGED <<audio_queue, unfinished_tasks, pieces_left, downloaded,
                   consumer_pc, audio_data, threads_started, put_log,
                   transcribed>>
    /\ UNCHANGED <<main_vars, srt_vars>>

\* Ctrl-C anywhere inside the try block of run(): except KeyboardInterrupt,
\* then finally.
PocKeyboardInterrupt ==
    /\ poc_pc # "returned"
    /\ PocReturn("interrupted")
    /\ UNCHANGED <<audio_queue, unfinished_tasks, pieces_left, downloaded,
                   consumer_pc, audio_data, threads_started, put_log,
                   transcribed>>
    /\ UNCHANGED <<main_vars, srt_vars>>

\* process_audio_queue: the test of while self.is_running.
ConsumerLoop ==
    /\ consumer_pc = "loop"
    /\ consumer_pc' = IF poc_is_running THEN "get" ELSE "stopped"
    /\ UNCHANGED <<poc_pc, poc_is_running, poc_outcome, audio_queue,
                   unfinished_tasks, pieces_left, downloaded, audio_data,
                   threads_started, put_log, transcribed>>
    /\ UNCHANGED <<main_vars, srt_vars>>

\* audio_queue.get(timeout=1.0) returns the oldest item.
ConsumerGet ==
    /\ consumer_pc = "get"
    /\ audio_queue # <<>>
    /\ audio_data' = Some(Head(audio_queue))
    /\ audio_queue' = Tail(audio_queue)
    /\ consumer_pc' = "transcribe"
    /\ UNCHANGED <<poc_pc, poc_is_running, poc_outcome, unfinished_tasks,
                   pieces_left, downloaded, threads_started, put_log,
                   transcribed>>
    /\ UNCHANGED <<main_vars, srt_vars>>

\* audio_queue.get times out on an empty queue: except queue.Empty, continue.
ConsumerGetEmpty ==
    /\ consumer_pc = "get"
    /\ audio_queue = <<>>
    /\ consumer_pc' = "loop"
    /\ UNCHANGED <<poc_pc, poc_is_running, poc_outcome, audio_queue,
                   unfinished_tasks, pieces_left, downloaded, audio_data,
                   threads_started, put_log, transcribed>>
    /\ UNCHANGED <<main_vars, srt_vars>>

\* transcribe_audio_chunk(audio_data) returns text or None.
ConsumerTranscribe ==
    /\ consumer_pc = "transcribe"
    /\ \E raw \in RawTexts \cup {WhisperError} :
          transcribed' = Append(transcribed,
                                [item |-> audio_data[1],
                                 text |-> PocTranscribeResult(raw)])
    /\ consumer_pc' = "task_done"
    /\ UNCHANGED <<poc_pc, poc_is_running, poc_outcome, audio_queue,
                   unfinished_tasks, pieces_left, downloaded, audio_data,
                   threads_started, put_log>>
    /\ UNCHANGED <<main_vars, srt_vars>>

ConsumerForgetsTaskDone ==
    /\ consumer_pc = "task_done"
    /\ consumer_pc' = "loop"
    /\ UNCHANGED <<poc_pc, poc_is_running, poc_outcome, audio_queue,
                   unfinished_tasks, pieces_left, downloaded, audio_data,
                   threads_started, put_log, transcribed>>
    /\ UNCHANGED <<main_vars, srt_vars>>

\* The transcript is printed and audio_queue.task_done() is called.
ConsumerTaskDone ==
    /\ consumer_pc = "task_done"
    /\ unfinished_tasks' = unfinished_tasks - 1
    /\ consumer_pc' = "loop"
    /\ UNCHANGED <<poc_pc, poc_is_running, poc_outcome, audio_queue,
                   pieces_left, downloaded, audio_data, threads_started,
                   put_log, transcribed>>
    /\ UNCHANGED <<main_vars, srt_vars>>

\* The steps of the main thread that run() itself takes.
PocMain ==
    \/ PocLoadModelOk
    \/ PocLoadModelFail
    \/ PocExtractInfoFail
    \/ PocNoAudio
    \/ PocStartThread
    \/ PocRequestOk
    \/ PocStreamingFail
    \/ PocDownloadPiece
    \/ PocPut
    \/ PocJoin

\* The steps of the transcription thread.
Consumer ==
    \/ ConsumerLoop
    \/ ConsumerGet
    \/ ConsumerGetEmpty
    \/ ConsumerTranscribe
    \/ ConsumerTaskDone

PocNext ==
    \/ PocLoadModelOk
    \/ PocLoadModelFail
    \/ PocExtractInfoFail
    \/ PocNoAudio
    \/ PocStartThread
    \/ PocRequestOk
    \/ PocStreamingFail
    \/ PocDownloadPiece
    \/ PocPut
    \/ PocJoin
    \/ PocKeyboardInterrupt
    \/ ConsumerLoop
    \/ ConsumerGet
    \/ ConsumerGetEmpty
    \/ ConsumerTranscribe
    \/ ConsumerTaskDone

\* A fresh StreamScribePOC, nothing else going on.
PocOnlyInit ==
    /\ RunInit
    /\ chunk_duration = 1
    /\ overlap_duration = 0
    /\ srt_ms = 0
    /\ srt_time = None
    /\ PocInit

PocSpec == PocOnlyInit /\ [][PocNext]_vars

\* Both threads keep being scheduled: a call on the main thread returns or
\* raises, and the transcription thread is not starved.
FairPocSpec == PocSpec /\ WF_vars(PocMain) /\ WF_vars(Consumer)

(***************************************************************************)
(* Properties of StreamScribePOC                                           *)
(***************************************************************************)
\* The transcription attempts made on the item put as the k-th.
AttemptsOn(k) == { j \in 1..Len(transcribed) : transcribed[j].item = put_log[k] }

\* One transcription thread, at most one item waiting, no item attempted
\* twice.
OneConsumerNoDuplicates ==
    /\ threads_started <= 1
    /\ Len(audio_queue) <= 1
    /\ \A k \in 1..Len(put_log) : Cardinality(AttemptsOn(k)) <= 1

\* C14 as stated: one producer and one consumer, the queue never holds more
\* than one item, and once run() has returned every item put on the queue
\* has been taken and transcribed exactly once.
C14_EveryItemTranscribedOnce ==
    /\ OneConsumerNoDuplicates
    /\ poc_pc = "returned" =>
          \A k \in 1..Len(put_log) : Cardinality(AttemptsOn(k)) = 1

\* C14 amended: one producer and one consumer, the queue never holds more
\* than one item, no item is transcribed twice, and once run() has returned
\* from audio_queue.join() (not through Ctrl-C) every item put on the queue
\* has been taken and transcribed exactly once.
C14_EveryItemTranscribedOnceUnlessInterrupted ==
    /\ OneConsumerNoDuplicates
    /\ poc_outcome = "completed" =>
          /\ audio_queue = <<>>
          /\ \A k \in 1..Len(put_log) : Cardinality(AttemptsOn(k)) = 1

C14_Witness ==
    /\ poc_outcome = "completed"
    /\ Len(put_log) = 1
    /\ put_log[1].pieces = MaxPieces
    /\ Len(transcribed) = 1
    /\ transcribed[1].text = Some(<<"a">>)

\* C18: with both threads scheduled fairly run() eventually returns; join()
\* lets run() through only when every queued item has had its transcription
\* attempt and its task_done, it is passable at once when the download failed
\* and nothing was queued, is_running is false once run() has returned, and
\* the consumer loop then stops.
C18_RunReturns ==
    /\ <>(poc_pc = "returned")
    /\ [][(poc_pc = "join" /\ poc_outcome' = "completed") =>
            /\ unfinished_tasks = 0
            /\ consumer_pc \notin {"transcribe", "task_done"}
            /\ \A k \in 1..Len(put_log) : AttemptsOn(k) # {}]_vars
    /\ []((poc_pc = "join" /\ put_log = <<>>) => unfinished_tasks = 0)
    /\ [](poc_pc = "returned" => ~poc_is_running)
    /\ (poc_pc = "returned") ~> (consumer_pc \in {"not_started", "stopped"})

C18_Witness ==
    /\ poc_pc = "returned"
    /\ poc_outcome = "completed"
    /\ Len(transcribed) = 1
    /\ transcribed[1].text = None
    /\ consumer_pc = "stopped"

====
